---- MODULE Spec2Model ----
(***************************************************************************)
(* A model of js-markdownify (src/markdownify.js): the MarkdownConverter   *)
(* class, its recursive tree walk processTag, the text pipeline            *)
(* (processText, escape) and the tag rule table convert_*.                 *)
(*                                                                         *)
(* Strings are sequences of one-character strings, so that every string    *)
(* operation of the source (trim, replace, repeat, slice, ...) is computed *)
(* character by character.  A DOM tree is a nested record; a node is named *)
(* by its path (the child indices from the top of the tree), so parentNode *)
(* and the sibling links of the DOM are computed from the path.            *)
(***************************************************************************)
EXTENDS Integers, Sequences, FiniteSets, TLC

(***************************************************************************)
(* JavaScript values                                                       *)
(***************************************************************************)

\* null (getAttribute of a missing attribute, an unset option).  It is a
\* tuple, so it compares with every string of the model, and no string
\* holds the token "null" as one of its characters.
Null == <<"null">>

\* JavaScript truthiness of a string-or-null value.
Truthy(s) == s # Null /\ s # <<>>

Min(a, b) == IF a <= b THEN a ELSE b
Max(a, b) == IF a >= b THEN a ELSE b

\* A Number: an integer or NaN.
NaN == [nan |-> TRUE, val |-> 0]
Num(n) == [nan |-> FALSE, val |-> n]

\* s.repeat(n) for n >= 0
RECURSIVE Repeat(_, _)
Repeat(s, n) == IF n <= 0 THEN <<>> ELSE s \o Repeat(s, n - 1)

\* What String.prototype.repeat and Array(n) do with their count: NaN
\* converts to 0 for repeat and is an invalid length for Array; a negative
\* count is a RangeError for both.
RepeatCountOk(n) == n.nan \/ n.val >= 0
RepeatCount(n) == IF n.nan THEN 0 ELSE n.val
ArrayLengthOk(n) == ~n.nan /\ n.val >= 0

\* /\s/ and the characters String.prototype.trim removes
IsSpace(c) == c \in {" ", "\t", "\n", "\r"}

Digits == <<"0", "1", "2", "3", "4", "5", "6", "7", "8", "9">>
IsDigit(c) == \E d \in 1..10 : Digits[d] = c
DigitVal(c) == (CHOOSE d \in 1..10 : Digits[d] = c) - 1

\* String(n) for a natural number
RECURSIVE NatToString(_)
NatToString(n) ==
    IF n < 10 THEN <<Digits[n + 1]>>
    ELSE NatToString(n \div 10) \o <<Digits[(n % 10) + 1]>>

\* String(n) for a Number
NumberToString(n) ==
    IF n.nan THEN <<"N", "a", "N">>
    ELSE IF n.val < 0 THEN <<"-">> \o NatToString(-n.val)
    ELSE NatToString(n.val)

\* a + b on Numbers
NumAdd(a, b) == IF a.nan \/ b.nan THEN NaN ELSE Num(a.val + b.val)

\* the value of a run of decimal digits
RECURSIVE DigitsValue(_, _)
DigitsValue(s, acc) ==
    IF s = <<>> THEN acc ELSE DigitsValue(Tail(s), 10 * acc + DigitVal(Head(s)))

\* index of the first character of s at or after i that fails P, Len(s)+1
\* if there is none
FirstNonSpace(s, i) ==
    LET idx == {k \in i..Len(s) : ~IsSpace(s[k])}
    IN IF idx = {} THEN Len(s) + 1 ELSE CHOOSE k \in idx : \A m \in idx : k <= m
FirstNonDigit(s, i) ==
    LET idx == {k \in i..Len(s) : ~IsDigit(s[k])}
    IN IF idx = {} THEN Len(s) + 1 ELSE CHOOSE k \in idx : \A m \in idx : k <= m

\* parseInt(s, 10): leading white space is skipped, one sign is read, then
\* the longest run of digits; what follows is ignored; no digit gives NaN.
\* d is the index of the first digit, e the index after the last.
ParseDigits(s, negative, d, e) ==
    IF e = d THEN NaN
    ELSE IF negative THEN Num(-DigitsValue(SubSeq(s, d, e - 1), 0))
    ELSE Num(DigitsValue(SubSeq(s, d, e - 1), 0))

ParseSigned(s, b) ==
    IF b <= Len(s) /\ s[b] \in {"-", "+"}
    THEN ParseDigits(s, s[b] = "-", b + 1, FirstNonDigit(s, b + 1))
    ELSE ParseDigits(s, FALSE, b, FirstNonDigit(s, b))

parseInt(s) == ParseSigned(s, FirstNonSpace(s, 1))

\* Number.isNaN(v) for a string or null v: it does not convert its
\* argument, and is true of the number NaN only.
NumberIsNaN(v) == FALSE

(***************************************************************************)
(* String operations                                                       *)
(***************************************************************************)

\* text.trimStart(), text.replace(/^\s+/, "")
TrimStart(s) == SubSeq(s, FirstNonSpace(s, 1), Len(s))

LastNonSpace(s) ==
    LET idx == {k \in 1..Len(s) : ~IsSpace(s[k])}
    IN IF idx = {} THEN 0 ELSE CHOOSE k \in idx : \A m \in idx : k >= m

\* text.trimRight(), text.replace(/\s+$/, "")
TrimEnd(s) == SubSeq(s, 1, LastNonSpace(s))

\* text.trim()
Trim(s) == TrimEnd(TrimStart(s))

\* text.replace(/\n+$/, "")
StripTrailingNewlines(s) ==
    LET idx == {k \in 1..Len(s) : s[k] # "\n"}
    IN IF idx = {} THEN <<>>
       ELSE SubSeq(s, 1, CHOOSE k \in idx : \A m \in idx : k >= m)

\* text.replace(/^\n+/, "")
StripLeadingNewlines(s) ==
    LET idx == {k \in 1..Len(s) : s[k] # "\n"}
    IN IF idx = {} THEN <<>>
       ELSE SubSeq(s, CHOOSE k \in idx : \A m \in idx : k <= m, Len(s))

\* text.replace(/x/g, r) for a one-character pattern x
RECURSIVE ReplaceChar(_, _, _)
ReplaceChar(s, x, r) ==
    IF s = <<>> THEN <<>>
    ELSE (IF Head(s) = x THEN r ELSE <<Head(s)>>) \o ReplaceChar(Tail(s), x, r)

\* text.replace(/\\_/g, "_")
RECURSIVE UnescapeUnderscores(_)
UnescapeUnderscores(s) ==
    IF s = <<>> THEN <<>>
    ELSE IF Len(s) >= 2 /\ s[1] = "\\" /\ s[2] = "_"
         THEN <<"_">> \o UnescapeUnderscores(SubSeq(s, 3, Len(s)))
         ELSE <<Head(s)>> \o UnescapeUnderscores(Tail(s))

\* text.split(sep) for a one-character separator
RECURSIVE Split(_, _)
Split(s, sep) ==
    LET idx == {k \in 1..Len(s) : s[k] = sep}
    IN IF idx = {} THEN <<s>>
       ELSE LET k == CHOOSE k \in idx : \A m \in idx : k <= m
            IN <<SubSeq(s, 1, k - 1)>> \o Split(SubSeq(s, k + 1, Len(s)), sep)

\* parts.join(sep)
RECURSIVE Join(_, _)
Join(parts, sep) ==
    IF parts = <<>> THEN <<>>
    ELSE IF Len(parts) = 1 THEN parts[1]
    ELSE parts[1] \o sep \o Join(Tail(parts), sep)

(***************************************************************************)
(* The DOM: the input tree, read and never changed                         *)
(***************************************************************************)

\* A node is [type, tag, attrs, value, kids]: type is "element", "text",
\* "comment" or "fragment" (a DocumentFragment, which has no tagName);
\* tag is the element's lower-cased tagName; attrs gives each attribute's
\* value, Null when the element does not have it; value is the nodeValue.
NoAttrs == [href |-> Null, title |-> Null, start |-> Null, colspan |-> Null,
            alt |-> Null, src |-> Null]

Elem(tag, kids) ==
    [type |-> "element", tag |-> tag, attrs |-> NoAttrs, value |-> <<>>, kids |-> kids]
ElemA(tag, attrs, kids) ==
    [type |-> "element", tag |-> tag, attrs |-> attrs, value |-> <<>>, kids |-> kids]
Text(value) ==
    [type |-> "text", tag |-> "", attrs |-> NoAttrs, value |-> value, kids |-> <<>>]
Comment(value) ==
    [type |-> "comment", tag |-> "", attrs |-> NoAttrs, value |-> value, kids |-> <<>>]
Fragment(kids) ==
    [type |-> "fragment", tag |-> "", attrs |-> NoAttrs, value |-> <<>>, kids |-> kids]

\* The absent node (a null parentNode or sibling): no path holds a 0.
NullNode == <<0>>

RECURSIVE NodeAt(_, _)
NodeAt(doc, path) ==
    IF path = <<>> THEN doc ELSE NodeAt(doc.kids[Head(path)], Tail(path))

parentNode(path) ==
    IF path = <<>> THEN NullNode ELSE SubSeq(path, 1, Len(path) - 1)

childNodes(doc, path) ==
    [i \in 1..Len(NodeAt(doc, path).kids) |-> path \o <<i>>]

previousSibling(doc, path) ==
    IF path = <<>> \/ path[Len(path)] = 1 THEN NullNode
    ELSE [path EXCEPT ![Len(path)] = @ - 1]

nextSibling(doc, path) ==
    IF path = <<>> THEN NullNode
    ELSE IF path[Len(path)] = Len(NodeAt(doc, parentNode(path)).kids) THEN NullNode
    ELSE [path EXCEPT ![Len(path)] = @ + 1]

IsElement(doc, path) == path # NullNode /\ NodeAt(doc, path).type = "element"

\* node.tagName ? node.tagName.toLowerCase() : "" ("" also stands for the
\* undefined tagName of a text, comment or fragment node)
tagName(doc, path) == IF IsElement(doc, path) THEN NodeAt(doc, path).tag ELSE ""

getAttribute(doc, path, name) == NodeAt(doc, path).attrs[name]

\* findAncestor(el, tagNames) !== null
findAncestor(doc, path, tagNames) ==
    \E i \in 1..Len(path) :
        LET a == SubSeq(path, 1, i - 1)
        IN IsElement(doc, a) /\ tagName(doc, a) \in tagNames

\* el.children (the element children), in order
RECURSIVE ElementsOf(_, _)
ElementsOf(doc, nodes) ==
    IF nodes = <<>> THEN <<>>
    ELSE (IF IsElement(doc, Head(nodes)) THEN <<Head(nodes)>> ELSE <<>>)
         \o ElementsOf(doc, Tail(nodes))

children(doc, path) == ElementsOf(doc, childNodes(doc, path))

\* el.previousElementSibling === null
NoPreviousElementSibling(doc, path) ==
    path = <<>> \/
    \A i \in 1..(path[Len(path)] - 1) :
        ~IsElement(doc, [path EXCEPT ![Len(path)] = i])

\* el.querySelector(name) !== null: some proper descendant is a <name>
RECURSIVE HasDescendant(_, _)
HasDescendant(node, name) ==
    \E i \in 1..Len(node.kids) :
        \/ (node.kids[i].type = "element" /\ node.kids[i].tag = name)
        \/ HasDescendant(node.kids[i], name)

htmlHeadingRe(tag) == tag \in {"h1", "h2", "h3", "h4", "h5", "h6"}

isBlockContent(doc, path) ==
    IF path = NullNode THEN FALSE
    ELSE LET node == NodeAt(doc, path)
         IN IF node.type = "element" THEN TRUE
            ELSE IF node.type = "comment" THEN FALSE
            ELSE IF node.type = "text" THEN Trim(node.value) # <<>>
            ELSE FALSE

RECURSIVE nextBlockContentSibling(_, _)
nextBlockContentSibling(doc, path) ==
    LET sibling == nextSibling(doc, path)
    IN IF sibling = NullNode THEN NullNode
       ELSE IF isBlockContent(doc, sibling) THEN sibling
       ELSE nextBlockContentSibling(doc, sibling)

shouldRemoveWhitespaceInside(doc, path) ==
    IF path = NullNode \/ ~IsElement(doc, path) THEN FALSE
    ELSE LET tag == tagName(doc, path)
         IN htmlHeadingRe(tag) \/
            tag \in {"p", "blockquote", "article", "div", "section", "ol", "ul",
                     "li", "table", "thead", "tbody", "tfoot", "tr", "td", "th"}

shouldRemoveWhitespaceOutside(doc, path) ==
    IF path = NullNode \/ ~IsElement(doc, path) THEN FALSE
    ELSE shouldRemoveWhitespaceInside(doc, path) \/ tagName(doc, path) = "pre"

(***************************************************************************)
(* MarkdownConverter: options and construction                             *)
(***************************************************************************)

DefaultWrapWidth == 80

\* The defaults of the constructor.  strip and convert are arrays of tag
\* names or null; code_language_callback is null or the string the callback
\* returns.
DefaultOptions ==
    [autolinks |-> TRUE,
     bullets |-> <<"*", "+", "-">>,
     code_language |-> <<>>,
     code_language_callback |-> Null,
     convert |-> Null,
     default_title |-> FALSE,
     escape_asterisks |-> TRUE,
     escape_underscores |-> TRUE,
     escape_misc |-> FALSE,
     heading_style |-> "underlined",
     keep_inline_images_in |-> <<>>,
     newline_style |-> "spaces",
     strip |-> Null,
     strip_document |-> "strip",
     strong_em_symbol |-> <<"*">>,
     sub_symbol |-> <<>>,
     sup_symbol |-> <<>>,
     table_infer_header |-> FALSE,
     wrap |-> FALSE,
     wrap_width |-> DefaultWrapWidth]

\* Object.assign(defaults, options)
ObjectAssign(defaults, given) ==
    [f \in DOMAIN defaults |-> IF f \in DOMAIN given THEN given[f] ELSE defaults[f]]

\* The constructor throwing when either list is supplied: a variant that
\* ConstructionFailsIffBoth tells from the constructor.
ConstructorThrowsOnEither(options) == options.strip # Null \/ options.convert # Null

\* The condition under which the constructor throws.
ConstructorThrows(options) == options.strip # Null /\ options.convert # Null

\* new MarkdownConverter(given): the error thrown ("none" if none) and the
\* options of the converter constructed.
Constructor(given) ==
    LET options == ObjectAssign(DefaultOptions, given)
    IN [error |-> IF ConstructorThrows(options) THEN "Error" ELSE "none",
        options |-> options]

\* array.includes(x)
Includes(array, x) == \E i \in 1..Len(array) : array[i] = x

shouldConvertTag(options, tag) ==
    IF options.strip # Null THEN ~Includes(options.strip, tag)
    ELSE IF options.convert # Null THEN Includes(options.convert, tag)
    ELSE TRUE

(***************************************************************************)
(* escape and processText                                                  *)
(***************************************************************************)

\* The grave accent (U+0060), which a TLA+ string cannot hold.
Backquote == "backquote"

MiscChars == {"\\", "&", "<", Backquote, "[", "]", ">", "~", "=", "+", "|"}

\* text.replace(/([\\&< U+0060 \[\]>~=+|])/g, "\\$1")
RECURSIVE EscapeMiscChars(_)
EscapeMiscChars(s) ==
    IF s = <<>> THEN <<>>
    ELSE (IF Head(s) \in MiscChars THEN <<"\\", Head(s)>> ELSE <<Head(s)>>)
         \o EscapeMiscChars(Tail(s))

\* the number of consecutive characters of s from index j on that are in cs
RECURSIVE RunLength(_, _, _)
RunLength(s, j, cs) ==
    IF j <= Len(s) /\ s[j] \in cs THEN 1 + RunLength(s, j + 1, cs) ELSE 0

\* (?:\s|$) at index k: the number of characters it consumes, -1 if it fails
MarkerEnd(s, k) ==
    IF k > Len(s) THEN 0 ELSE IF IsSpace(s[k]) THEN 1 ELSE -1

NoMatch == [ok |-> FALSE, ins |-> 0, end |-> 0]

MarkerChars(kind) ==
    IF kind = "hyphen" THEN {"-"}
    ELSE IF kind = "hash" THEN {"#"}
    ELSE {"0", "1", "2", "3", "4", "5", "6", "7", "8", "9"}

\* The part of a block-marker pattern after its (\s|^), matched at index j
\* where a run of r marker characters starts: ins is where the backslash
\* goes, end the index after the match.
\*   "hyphen"  -+(?:\s|$)              a greedy run can only give characters
\*   "hash"    #{1,6}(?:\s|$)          back to a failing continuation, so
\*   "ordinal" [0-9]{1,9}[.)](?:\s|$)  the whole run must fit
MarkerOfRun(s, j, kind, r) ==
    IF kind = "hyphen" THEN
        IF r >= 1 /\ MarkerEnd(s, j + r) >= 0
        THEN [ok |-> TRUE, ins |-> j, end |-> j + r + MarkerEnd(s, j + r)]
        ELSE NoMatch
    ELSE IF kind = "hash" THEN
        IF r >= 1 /\ r <= 6 /\ MarkerEnd(s, j + r) >= 0
        THEN [ok |-> TRUE, ins |-> j, end |-> j + r + MarkerEnd(s, j + r)]
        ELSE NoMatch
    ELSE
        IF r >= 1 /\ r <= 9 /\ j + r <= Len(s) /\ s[j + r] \in {".", ")"}
           /\ MarkerEnd(s, j + r + 1) >= 0
        THEN [ok |-> TRUE, ins |-> j + r, end |-> j + r + 1 + MarkerEnd(s, j + r + 1)]
        ELSE NoMatch

MarkerAt(s, j, kind) == MarkerOfRun(s, j, kind, RunLength(s, j, MarkerChars(kind)))

\* The match of /(\s|^)(MARKER)/ that starts at index i: "\s" is tried
\* before "^", and "^" matches at the start of the text only.
MatchAt(s, i, kind) ==
    IF IsSpace(s[i]) /\ MarkerAt(s, i + 1, kind).ok THEN MarkerAt(s, i + 1, kind)
    ELSE IF i = 1 THEN MarkerAt(s, i, kind)
    ELSE NoMatch

\* text.replace(/(\s|^)(MARKER)/g, "$1\\$2") from index i on: the pattern is
\* tried at each index from the left, and the search goes on after a match.
RECURSIVE EscapeMarkers(_, _, _)
RECURSIVE EscapeMatch(_, _, _, _)
EscapeMatch(s, i, kind, m) ==
    IF m.ok
    THEN SubSeq(s, i, m.ins - 1) \o <<"\\">> \o SubSeq(s, m.ins, m.end - 1)
         \o EscapeMarkers(s, m.end, kind)
    ELSE <<s[i]>> \o EscapeMarkers(s, i + 1, kind)

EscapeMarkers(s, i, kind) ==
    IF i > Len(s) THEN <<>> ELSE EscapeMatch(s, i, kind, MatchAt(s, i, kind))

\* The replaces of the block markers, one after the other.
RECURSIVE EscapeMarkerKinds(_, _)
EscapeMarkerKinds(s, kinds) ==
    IF kinds = <<>> THEN s
    ELSE EscapeMarkerKinds(EscapeMarkers(s, 1, Head(kinds)), Tail(kinds))

EscapeMisc(options, text) ==
    IF options.escape_misc
    THEN EscapeMarkerKinds(EscapeMiscChars(text), <<"hyphen", "hash", "ordinal">>)
    ELSE text

EscapeAsterisks(options, text) ==
    IF options.escape_asterisks THEN ReplaceChar(text, "*", <<"\\", "*">>) ELSE text

EscapeUnderscores(options, text) ==
    IF options.escape_underscores THEN ReplaceChar(text, "_", <<"\\", "_">>) ELSE text

escape(options, text) ==
    IF text = <<>> THEN <<>>
    ELSE EscapeUnderscores(options, EscapeAsterisks(options, EscapeMisc(options, text)))

\* text.replace(allWhitespaceRe, " ") when wrap, else
\* text.replace(newlineWhitespaceRe, "\n").replace(whitespaceRe, " "): each
\* maximal run of [\t \r\n] becomes one space, or, without wrap, one newline
\* when the run holds a \r or \n.
RECURSIVE CollapseWhitespace(_, _)
RECURSIVE CollapseRun(_, _, _)
CollapseRun(s, wrap, r) ==
    <<IF ~wrap /\ (\E k \in 1..r : s[k] \in {"\n", "\r"}) THEN "\n" ELSE " ">>
    \o CollapseWhitespace(SubSeq(s, r + 1, Len(s)), wrap)

CollapseWhitespace(s, wrap) ==
    IF s = <<>> THEN <<>>
    ELSE IF ~IsSpace(Head(s)) THEN <<Head(s)>> \o CollapseWhitespace(Tail(s), wrap)
    ELSE CollapseRun(s, wrap, RunLength(s, 1, {" ", "\t", "\n", "\r"}))

\* The steps of processText.
NormalizeText(options, doc, path, text) ==
    IF ~findAncestor(doc, path, {"pre"}) THEN CollapseWhitespace(text, options.wrap)
    ELSE text

EscapeText(options, doc, path, text) ==
    IF ~findAncestor(doc, path, {"pre", "code", "kbd", "samp"}) THEN escape(options, text)
    ELSE text

InsideBlock(doc, path) ==
    parentNode(path) # NullNode /\ shouldRemoveWhitespaceInside(doc, parentNode(path))

StripLeft(doc, path, text) ==
    IF shouldRemoveWhitespaceOutside(doc, previousSibling(doc, path))
       \/ (InsideBlock(doc, path) /\ previousSibling(doc, path) = NullNode)
    THEN TrimStart(text) ELSE text

StripRight(doc, path, text) ==
    IF shouldRemoveWhitespaceOutside(doc, nextSibling(doc, path))
       \/ (InsideBlock(doc, path) /\ nextSibling(doc, path) = NullNode)
    THEN TrimEnd(text) ELSE text

processText(options, doc, path) ==
    StripRight(doc, path,
        StripLeft(doc, path,
            EscapeText(options, doc, path,
                NormalizeText(options, doc, path, NodeAt(doc, path).value))))

(***************************************************************************)
(* The tag rules.  A rule returns [err, text]: the error it throws ("none" *)
(* if none) and the string it returns.                                     *)
(***************************************************************************)

Ok(text) == [err |-> "none", text |-> text]
Throw(err) == [err |-> err, text |-> <<>>]

\* chomp losing the boundary spaces: a variant that InlineWrap tells from
\* chomp.
chompWithoutSpaces(text) == [prefix |-> <<>>, suffix |-> <<>>, trimmed |-> Trim(text)]

\* chomp(text): [prefix, suffix, trimmed]
chomp(text) ==
    [prefix |-> IF text # <<>> /\ text[1] = " " THEN <<" ">> ELSE <<>>,
     suffix |-> IF text # <<>> /\ text[Len(text)] = " " THEN <<" ">> ELSE <<>>,
     trimmed |-> Trim(text)]

\* The closing markup of abstractInlineConversion: "</" + markupPrefix.slice(1)
\* for a prefix of the form <...>, the prefix itself otherwise.
MarkupSuffix(markupPrefix) ==
    IF markupPrefix # <<>> /\ markupPrefix[1] = "<"
       /\ markupPrefix[Len(markupPrefix)] = ">"
    THEN <<"<", "/">> \o Tail(markupPrefix)
    ELSE markupPrefix

CodeTags == {"pre", "code", "kbd", "samp"}

\* abstractInlineConversion, with markupFn.call(context) already evaluated
abstractInlineConversion(markupPrefix, doc, el, text) ==
    IF findAncestor(doc, el, CodeTags) THEN text
    ELSE LET c == chomp(text)
         IN IF c.trimmed = <<>> THEN <<>>
            ELSE c.prefix \o markupPrefix \o c.trimmed
                 \o MarkupSuffix(markupPrefix) \o c.suffix

\* title ? ` "${title.replace(/"/g, '\\"')}"` : ""
TitlePart(title) ==
    IF Truthy(title)
    THEN <<" ", "\"">> \o ReplaceChar(title, "\"", <<"\\", "\"">>) \o <<"\"">>
    ELSE <<>>

\* convert_a writing an autolink whatever default_title is: a variant that
\* LinkOutput tells from convert_a.
convert_aWithoutDefaultTitle(options, doc, el, text) ==
    IF findAncestor(doc, el, CodeTags) THEN text
    ELSE IF Trim(text) = <<>> THEN <<>>
    ELSE IF options.autolinks
            /\ UnescapeUnderscores(Trim(text)) = getAttribute(doc, el, "href")
            /\ ~Truthy(getAttribute(doc, el, "title"))
         THEN <<"<">> \o getAttribute(doc, el, "href") \o <<">">>
    ELSE text

convert_a(options, doc, el, text) ==
    IF findAncestor(doc, el, CodeTags) THEN text
    ELSE LET c == chomp(text)
             href == getAttribute(doc, el, "href")
             attrTitle == getAttribute(doc, el, "title")
             title == IF options.default_title /\ ~Truthy(attrTitle)
                      THEN href ELSE attrTitle
         IN IF c.trimmed = <<>> THEN <<>>
            ELSE IF options.autolinks
                    /\ UnescapeUnderscores(c.trimmed) = href
                    /\ ~Truthy(attrTitle)
                    /\ ~options.default_title
                 THEN <<"<">> \o href \o <<">">>
            ELSE IF Truthy(href)
                 THEN c.prefix \o <<"[">> \o c.trimmed \o <<"]", "(">> \o href
                      \o TitlePart(title) \o <<")">> \o c.suffix
            ELSE text

convert_b(options, doc, el, text) ==
    abstractInlineConversion(options.strong_em_symbol \o options.strong_em_symbol,
                             doc, el, text)

convert_em(options, doc, el, text) ==
    abstractInlineConversion(options.strong_em_symbol, doc, el, text)

convert_code(options, doc, el, text) ==
    IF parentNode(el) # NullNode /\ tagName(doc, parentNode(el)) = "pre" THEN text
    ELSE abstractInlineConversion(<<Backquote>>, doc, el, text)

convert_del(options, doc, el, text) ==
    abstractInlineConversion(<<"~", "~">>, doc, el, text)

convert_sub(options, doc, el, text) ==
    abstractInlineConversion(options.sub_symbol, doc, el, text)

convert_sup(options, doc, el, text) ==
    abstractInlineConversion(options.sup_symbol, doc, el, text)

\* text.replace(lineWithContentRe, (match, p1) => p1 ? prefix + p1 : blank):
\* /^(.*)$/gm matches every line once, the empty ones included.
RECURSIVE MapLines(_, _, _)
MapLines(s, prefix, blank) ==
    LET idx == {k \in 1..Len(s) : s[k] \in {"\n", "\r"}}
        e == IF idx = {} THEN Len(s) + 1 ELSE CHOOSE k \in idx : \A m \in idx : k <= m
        line == SubSeq(s, 1, e - 1)
        out == IF line # <<>> THEN prefix \o line ELSE blank
    IN IF e > Len(s) THEN out
       ELSE out \o <<s[e]>> \o MapLines(SubSeq(s, e + 1, Len(s)), prefix, blank)

convert_blockquote(options, doc, el, text, convertAsInline) ==
    LET t == Trim(text)
    IN IF convertAsInline THEN <<" ">> \o t \o <<" ">>
       ELSE IF t = <<>> THEN <<"\n">>
       ELSE <<"\n">> \o MapLines(t, <<">", " ">>, <<">">>) \o <<"\n", "\n">>

convert_br(options, doc, el, text, convertAsInline) ==
    IF convertAsInline THEN <<>>
    ELSE IF options.newline_style = "backslash" THEN <<"\\", "\n">>
    ELSE <<" ", " ", "\n">>

convert_div(options, doc, el, text, convertAsInline) ==
    IF convertAsInline THEN <<" ">> \o Trim(text) \o <<" ">>
    ELSE IF Trim(text) # <<>> THEN <<"\n", "\n">> \o Trim(text) \o <<"\n", "\n">>
    ELSE <<>>

convert_dd(options, doc, el, text, convertAsInline) ==
    LET t == Trim(text)
    IN IF convertAsInline THEN <<" ">> \o t \o <<" ">>
       ELSE IF t = <<>> THEN <<"\n">>
       ELSE <<":">> \o Tail(MapLines(t, <<" ", " ", " ", " ">>, <<>>)) \o <<"\n">>

convert_dt(options, doc, el, text, convertAsInline) ==
    LET t == CollapseWhitespace(Trim(text), TRUE)
    IN IF convertAsInline THEN <<" ">> \o t \o <<" ">>
       ELSE IF t = <<>> THEN <<"\n">>
       ELSE <<"\n">> \o t \o <<"\n">>

underline(text, padChar) ==
    LET t == TrimEnd(text)
    IN IF t # <<>>
       THEN <<"\n", "\n">> \o t \o <<"\n">> \o Repeat(<<padChar>>, Len(t)) \o <<"\n", "\n">>
       ELSE <<>>

\* Number(tag.charAt(1)) of a heading tag
HeadingLevel(tag) ==
    CASE tag = "h1" -> 1 [] tag = "h2" -> 2 [] tag = "h3" -> 3
      [] tag = "h4" -> 4 [] tag = "h5" -> 5 [] tag = "h6" -> 6

_convert_hn(n0, options, doc, el, text, convertAsInline) ==
    LET n == Max(1, Min(6, n0))
        t == Trim(text)
        collapsed == CollapseWhitespace(t, TRUE)
        hashes == Repeat(<<"#">>, n)
    IN IF convertAsInline THEN text
       ELSE IF options.heading_style = "underlined" /\ n <= 2
            THEN underline(t, IF n = 1 THEN "=" ELSE "-")
       ELSE IF options.heading_style = "atx_closed"
            THEN <<"\n", "\n">> \o hashes \o <<" ">> \o collapsed \o <<" ">> \o hashes
                 \o <<"\n", "\n">>
       ELSE <<"\n", "\n">> \o hashes \o <<" ">> \o collapsed \o <<"\n", "\n">>

convert_hr(options, doc, el, text, convertAsInline) ==
    <<"\n", "\n", "-", "-", "-", "\n", "\n">>

\* el.getAttribute(name) || ""
AttrOrEmpty(doc, el, name) ==
    IF Truthy(getAttribute(doc, el, name)) THEN getAttribute(doc, el, name) ELSE <<>>

convert_img(options, doc, el, text, convertAsInline) ==
    LET alt == AttrOrEmpty(doc, el, "alt")
        src == AttrOrEmpty(doc, el, "src")
        title == AttrOrEmpty(doc, el, "title")
    IN IF convertAsInline
          /\ (parentNode(el) = NullNode
              \/ ~Includes(options.keep_inline_images_in, tagName(doc, parentNode(el))))
       THEN alt
       ELSE <<"!", "[">> \o alt \o <<"]", "(">> \o src \o TitlePart(title) \o <<")">>

\* wordWrap(str, width), from the word at index i on
RECURSIVE WrapWords(_, _, _, _, _)
WrapWords(words, i, width, currentLine, lines) ==
    IF i > Len(words)
    THEN IF currentLine # <<>> THEN Append(lines, Trim(currentLine)) ELSE lines
    ELSE IF Len(currentLine \o words[i]) > width
         THEN WrapWords(words, i + 1, width, words[i] \o <<" ">>,
                        Append(lines, Trim(currentLine)))
         ELSE WrapWords(words, i + 1, width, currentLine \o words[i] \o <<" ">>, lines)

wordWrap(str, width) == Join(WrapWords(Split(str, " "), 1, width, <<>>, <<>>), <<"\n">>)

\* lines.map(line => wordWrap(line.trimStart(), width))
WrapLines(lines, width) == [i \in 1..Len(lines) |-> wordWrap(TrimStart(lines[i]), width)]

\* The wrap_width of the model is always a number (never null).
convert_p(options, doc, el, text, convertAsInline) ==
    LET t == Trim(text)
        wrapped == IF options.wrap
                   THEN Join(WrapLines(Split(t, "\n"), options.wrap_width), <<"\n">>)
                   ELSE t
    IN IF convertAsInline THEN <<" ">> \o t \o <<" ">>
       ELSE IF wrapped # <<>> THEN <<"\n", "\n">> \o wrapped \o <<"\n", "\n">>
       ELSE <<>>

convert_pre(options, doc, el, text, convertAsInline) ==
    LET codeLang == IF options.code_language_callback # Null
                       /\ options.code_language_callback # <<>>
                    THEN options.code_language_callback
                    ELSE options.code_language
        fence == <<Backquote, Backquote, Backquote>>
    IN IF text = <<>> THEN <<>>
       ELSE <<"\n", "\n">> \o fence \o codeLang \o <<"\n">> \o text \o <<"\n">> \o fence
            \o <<"\n", "\n">>

convert_table(options, doc, el, text, convertAsInline) ==
    <<"\n", "\n">> \o Trim(text) \o <<"\n", "\n">>

convert_caption(options, doc, el, text, convertAsInline) ==
    Trim(text) \o <<"\n", "\n">>

convert_figcaption(options, doc, el, text, convertAsInline) ==
    <<"\n", "\n">> \o Trim(text) \o <<"\n", "\n">>

(***************************************************************************)
(* Lists                                                                   *)
(***************************************************************************)

\* The while loop of convert_list: el or one of its ancestors is an li.
ListIsNested(doc, el) ==
    \E i \in 0..Len(el) : tagName(doc, SubSeq(el, 1, i)) = "li"

\* beforeParagraph of convert_list
BeforeParagraph(doc, el) ==
    LET next == nextBlockContentSibling(doc, el)
    IN next # NullNode /\ tagName(doc, next) # "" /\ tagName(doc, next) \notin {"ul", "ol"}

convert_list(options, doc, el, text, convertAsInline) ==
    IF ListIsNested(doc, el) THEN <<"\n">> \o StripTrailingNewlines(text)
    ELSE <<"\n", "\n">> \o text \o (IF BeforeParagraph(doc, el) THEN <<"\n">> ELSE <<>>)

\* a % b of JavaScript for integers: the sign of the dividend; NaN for b = 0
JsRemainder(a, b) ==
    IF b = 0 THEN NaN
    ELSE IF a >= 0 THEN Num(a % b) ELSE Num(-((-a) % b))

\* string[i]: the character, or undefined
Undefined == <<"u", "n", "d", "e", "f", "i", "n", "e", "d">>
CharAt(string, i) ==
    IF ~i.nan /\ i.val >= 0 /\ i.val < Len(string) THEN <<string[i.val + 1]>>
    ELSE Undefined

\* The depth loop of convert_li: -1 plus the number of ul among el and its
\* ancestors.
UlDepth(doc, el) ==
    Cardinality({i \in 0..Len(el) : tagName(doc, SubSeq(el, 1, i)) = "ul"}) - 1

\* prevLis.indexOf(el): the number of li element siblings before el
LiIndex(doc, el) ==
    Cardinality({i \in 1..(el[Len(el)] - 1) :
                    tagName(doc, [el EXCEPT ![Len(el)] = i]) = "li"})

\* startAttr && !Number.isNaN(startAttr) ? parseInt(startAttr, 10) : 1
NumericAttr(value) ==
    IF Truthy(value) /\ ~NumberIsNaN(value) THEN parseInt(value) ELSE Num(1)

\* The bullet of convert_li, without the space that follows it.
Bullet(options, doc, el) ==
    IF parentNode(el) # NullNode /\ tagName(doc, parentNode(el)) = "ol"
    THEN NumberToString(NumAdd(NumericAttr(getAttribute(doc, parentNode(el), "start")),
                               Num(LiIndex(doc, el)))) \o <<".">>
    ELSE CharAt(options.bullets, JsRemainder(UlDepth(doc, el), Len(options.bullets)))

convert_li(options, doc, el, text, convertAsInline) ==
    LET t == Trim(text)
        bullet == Bullet(options, doc, el) \o <<" ">>
        bulletWidth == Len(bullet)
        bulletIndent == Repeat(<<" ">>, bulletWidth)
        indented == MapLines(t, bulletIndent, <<>>)
    IN IF t = <<>> THEN <<"\n">>
       ELSE bullet \o SubSeq(indented, bulletWidth + 1, Len(indented)) \o <<"\n">>

(***************************************************************************)
(* Tables                                                                  *)
(***************************************************************************)

\* The colspan of convert_td, convert_th and the reduce of convert_tr.
Colspan(doc, cell) == NumericAttr(getAttribute(doc, cell, "colspan"))

convert_td(options, doc, el, text, convertAsInline) ==
    LET colspan == Colspan(doc, el)
    IN IF ~RepeatCountOk(colspan) THEN Throw("RangeError")
       ELSE Ok(<<" ">> \o ReplaceChar(Trim(text), "\n", <<" ">>)
               \o Repeat(<<" ", "|">>, RepeatCount(colspan)))

convert_th(options, doc, el, text, convertAsInline) ==
    convert_td(options, doc, el, text, convertAsInline)

\* the td and th children of a tr
RECURSIVE CellsOf(_, _)
CellsOf(doc, nodes) ==
    IF nodes = <<>> THEN <<>>
    ELSE (IF tagName(doc, Head(nodes)) \in {"td", "th"} THEN <<Head(nodes)>> ELSE <<>>)
         \o CellsOf(doc, Tail(nodes))

RECURSIVE SumColspans(_, _)
SumColspans(doc, cells) ==
    IF cells = <<>> THEN Num(0)
    ELSE NumAdd(Colspan(doc, Head(cells)), SumColspans(doc, Tail(cells)))

isFirstRow(doc, el) == NoPreviousElementSibling(doc, el)

isHeadRow(doc, el) ==
    LET cells == CellsOf(doc, children(doc, el))
        parent == parentNode(el)
    IN (\A i \in 1..Len(cells) : tagName(doc, cells[i]) = "th")
       \/ (parent # NullNode /\ tagName(doc, parent) = "thead"
           /\ Len(children(doc, parent)) = 1)

\* Whether computing isHeadRowMissing throws: el.parentNode.tagName is
\* undefined (a fragment parent), or el.parentNode.parentNode is null.
HeadRowMissingThrows(doc, el) ==
    LET parent == parentNode(el)
    IN isFirstRow(doc, el) /\ parent # NullNode
       /\ (~IsElement(doc, parent)
           \/ (tagName(doc, parent) = "tbody" /\ parentNode(parent) = NullNode))

isHeadRowMissing(doc, el) ==
    LET parent == parentNode(el)
    IN \/ (isFirstRow(doc, el) /\ parent # NullNode /\ tagName(doc, parent) # "tbody")
       \/ (isFirstRow(doc, el) /\ parent # NullNode /\ tagName(doc, parent) = "tbody"
           /\ ~HasDescendant(NodeAt(doc, parentNode(parent)), "thead"))

\* "| " + Array(n).fill(x).join(" | ") + " |\n"
SeparatorLine(n, x) == <<"|", " ">> \o Join([i \in 1..n |-> x], <<" ", "|", " ">>) \o <<" ", "|", "\n">>

convert_tr(options, doc, el, text, convertAsInline) ==
    LET cells == CellsOf(doc, children(doc, el))
        parent == parentNode(el)
        first == isFirstRow(doc, el)
        missing == isHeadRowMissing(doc, el)
        fullColspan == SumColspans(doc, cells)
        row == <<"|">> \o text \o <<"\n">>
    IN IF HeadRowMissingThrows(doc, el) THEN Throw("TypeError")
       ELSE IF (isHeadRow(doc, el) \/ (missing /\ options.table_infer_header)) /\ first
       THEN IF ~ArrayLengthOk(fullColspan) THEN Throw("RangeError")
            ELSE Ok(row \o SeparatorLine(fullColspan.val, <<"-", "-", "-">>))
       ELSE IF missing /\ ~options.table_infer_header
       THEN Ok(SeparatorLine(Len(cells), <<>>)
               \o SeparatorLine(Len(cells), <<"_", "_", "_">>) \o row)
       ELSE IF first /\ parent = NullNode THEN Throw("TypeError")
       ELSE IF first /\ (tagName(doc, parent) = "table"
                         \/ (tagName(doc, parent) = "tbody"
                             /\ NoPreviousElementSibling(doc, parent)))
       THEN Ok(SeparatorLine(Len(cells), <<>>)
               \o SeparatorLine(Len(cells), <<"_", "_", "_">>) \o row)
       ELSE Ok(row)

(***************************************************************************)
(* The tree walk                                                           *)
(***************************************************************************)

\* The names X for which the class has a method convert_X.
Methods ==
    {"a", "b", "blockquote", "br", "code", "del", "div", "article", "section",
     "em", "kbd", "dd", "dt", "hr", "i", "img", "list", "ul", "ol", "li", "p",
     "pre", "script", "style", "s", "strong", "samp", "sub", "sup", "table",
     "caption", "figcaption", "td", "th", "tr"}

\* (tag || node.nodeName).replace(/[\[\]:-]/g, "_"): what follows "convert_"
\* in funcName.  Tag names are atoms of the model, so the replacement is
\* given for the two names of the model that hold one of the characters.
FuncName(doc, node) ==
    IF IsElement(doc, node)
    THEN IF tagName(doc, node) = "x-tag" THEN "x_tag" ELSE tagName(doc, node)
    ELSE "#document_fragment"

\* this[funcName](node, text, convertAsInline)
CallMethod(name, options, doc, el, text, convertAsInline) ==
    CASE name = "a" -> Ok(convert_a(options, doc, el, text))
      [] name \in {"b", "strong"} -> Ok(convert_b(options, doc, el, text))
      [] name \in {"em", "i"} -> Ok(convert_em(options, doc, el, text))
      [] name \in {"code", "kbd", "samp"} -> Ok(convert_code(options, doc, el, text))
      [] name \in {"del", "s"} -> Ok(convert_del(options, doc, el, text))
      [] name = "sub" -> Ok(convert_sub(options, doc, el, text))
      [] name = "sup" -> Ok(convert_sup(options, doc, el, text))
      [] name = "blockquote" ->
            Ok(convert_blockquote(options, doc, el, text, convertAsInline))
      [] name = "br" -> Ok(convert_br(options, doc, el, text, convertAsInline))
      [] name \in {"div", "article", "section"} ->
            Ok(convert_div(options, doc, el, text, convertAsInline))
      [] name = "dd" -> Ok(convert_dd(options, doc, el, text, convertAsInline))
      [] name = "dt" -> Ok(convert_dt(options, doc, el, text, convertAsInline))
      [] name = "hr" -> Ok(convert_hr(options, doc, el, text, convertAsInline))
      [] name = "img" -> Ok(convert_img(options, doc, el, text, convertAsInline))
      [] name \in {"list", "ul", "ol"} ->
            Ok(convert_list(options, doc, el, text, convertAsInline))
      [] name = "li" -> Ok(convert_li(options, doc, el, text, convertAsInline))
      [] name = "p" -> Ok(convert_p(options, doc, el, text, convertAsInline))
      [] name = "pre" -> Ok(convert_pre(options, doc, el, text, convertAsInline))
      [] name \in {"script", "style"} -> Ok(<<>>)
      [] name = "table" -> Ok(convert_table(options, doc, el, text, convertAsInline))
      [] name = "caption" -> Ok(convert_caption(options, doc, el, text, convertAsInline))
      [] name = "figcaption" ->
            Ok(convert_figcaption(options, doc, el, text, convertAsInline))
      [] name = "td" -> convert_td(options, doc, el, text, convertAsInline)
      [] name = "th" -> convert_th(options, doc, el, text, convertAsInline)
      [] name = "tr" -> convert_tr(options, doc, el, text, convertAsInline)

\* The dispatch that ends processTag.
ApplyRule(options, doc, node, text, convertAsInline) ==
    LET tag == tagName(doc, node)
    IN IF FuncName(doc, node) \in Methods /\ shouldConvertTag(options, tag)
       THEN CallMethod(FuncName(doc, node), options, doc, node, text, convertAsInline)
       ELSE IF htmlHeadingRe(tag) /\ shouldConvertTag(options, tag)
       THEN Ok(_convert_hn(HeadingLevel(tag), options, doc, node, text, convertAsInline))
       ELSE Ok(text)

\* The flag of the children computed without the inherited flag: a variant
\* that InlineFlagOnlyTurnsOn tells from the flag of processTag.
ConvertChildrenAsInlineNotInherited(tag, convertAsInline) ==
    htmlHeadingRe(tag) \/ tag \in {"td", "th"}

\* convertChildrenAsInline of processTag
ConvertChildrenAsInline(tag, convertAsInline) ==
    convertAsInline \/ htmlHeadingRe(tag) \/ tag \in {"td", "th"}

\* canIgnore(child) of processTag
canIgnore(doc, node, child) ==
    LET type == NodeAt(doc, child).type
        prev == previousSibling(doc, child)
        next == nextSibling(doc, child)
    IN IF type = "element" THEN FALSE
       ELSE IF type = "comment" THEN TRUE
       ELSE IF type = "text" THEN
           IF Trim(NodeAt(doc, child).value) # <<>> THEN FALSE
           ELSE IF shouldRemoveWhitespaceInside(doc, node)
                   /\ (prev = NullNode \/ next = NullNode) THEN TRUE
           ELSE shouldRemoveWhitespaceOutside(doc, prev)
                \/ shouldRemoveWhitespaceOutside(doc, next)
       ELSE FALSE

\* Array.from(node.childNodes).filter(child => !canIgnore(child))
RECURSIVE KeptChildren(_, _, _)
KeptChildren(doc, node, nodes) ==
    IF nodes = <<>> THEN <<>>
    ELSE (IF canIgnore(doc, node, Head(nodes)) THEN <<>> ELSE <<Head(nodes)>>)
         \o KeptChildren(doc, node, Tail(nodes))

\* The two runs added up: a variant that NewlineMerge tells from the merge.
MergeNewlinesAdded(newlinesLeft, newlinesRight) == newlinesLeft + newlinesRight

\* The number of newlines the two pieces meet with.
MergeNewlines(newlinesLeft, newlinesRight) == Max(newlinesLeft, newlinesRight)

\* The body of the loop of processTag for an element child: the accumulated
\* text and the child's converted text, merged.
MergeChild(text, nextText) ==
    LET textStrip == StripTrailingNewlines(text)
        newlinesLeft == Len(text) - Len(textStrip)
        nextTextStrip == StripLeadingNewlines(nextText)
        newlinesRight == Len(nextText) - Len(nextTextStrip)
    IN textStrip \o Repeat(<<"\n">>, MergeNewlines(newlinesLeft, newlinesRight))
       \o nextTextStrip

\* processTag(node, convertAsInline) returns [err, text, calls, merges]:
\* the error thrown ("none" if none), the string returned, and, for the
\* properties below, the log of the walk: one entry of calls for each call
\* of processTag that returned (its node, its flag, the merged text of the
\* children and the text returned), and one entry of merges for each
\* element child folded into an accumulator.
RECURSIVE processTag(_, _, _, _)
RECURSIVE FoldChildren(_, _, _, _, _, _)
FoldChildren(options, doc, kept, i, convertChildrenAsInline, acc) ==
    IF i > Len(kept) \/ acc.err # "none" THEN acc
    ELSE IF NodeAt(doc, kept[i]).type = "text"
    THEN FoldChildren(options, doc, kept, i + 1, convertChildrenAsInline,
                      [acc EXCEPT !.text = @ \o processText(options, doc, kept[i])])
    ELSE LET next == processTag(options, doc, kept[i], convertChildrenAsInline)
             merged == MergeChild(acc.text, next.text)
         IN IF next.err # "none"
            THEN [acc EXCEPT !.err = next.err]
            ELSE FoldChildren(options, doc, kept, i + 1, convertChildrenAsInline,
                     [err |-> "none",
                      text |-> merged,
                      calls |-> acc.calls \cup next.calls,
                      merges |-> acc.merges \cup next.merges
                                 \cup {[left |-> acc.text, right |-> next.text,
                                        out |-> merged]}])

processTag(options, doc, node, convertAsInline) ==
    LET tag == tagName(doc, node)
        kept == KeptChildren(doc, node, childNodes(doc, node))
        folded == FoldChildren(options, doc, kept, 1,
                               ConvertChildrenAsInline(tag, convertAsInline),
                               [err |-> "none", text |-> <<>>, calls |-> {}, merges |-> {}])
        applied == ApplyRule(options, doc, node, folded.text, convertAsInline)
    IN IF folded.err # "none" THEN folded
       ELSE IF applied.err # "none" THEN [folded EXCEPT !.err = applied.err]
       ELSE [folded EXCEPT
                !.text = applied.text,
                !.calls = @ \cup {[node |-> node, inline |-> convertAsInline,
                                   text |-> folded.text, out |-> applied.text]}]

\* convert(dom)
convert(options, doc, node) == processTag(options, doc, node, FALSE)

(***************************************************************************)
(* The inputs of the model                                                 *)
(***************************************************************************)

\* MaxDepth bounds the nesting of the list trees, MaxInlineDepth that of
\* the inline trees, MaxCells the cells of a table row.
MaxDepth == 4
MaxInlineDepth == 2
MaxCells == 2
MaxTextLen == 5

\* the tree tag_1 > tag_2 > ... > tag_n > leaf
RECURSIVE Chain(_, _)
Chain(tags, leaf) ==
    IF tags = <<>> THEN leaf ELSE Elem(Head(tags), <<Chain(Tail(tags), leaf)>>)

Chains(tagSet, maxLen, leaves) ==
    {Chain(tags, leaf) : tags \in UNION {[1..n -> tagSet] : n \in 1..maxLen},
                         leaf \in leaves}

\* One element of every tag, with a text child, alone and in a heading.
AllTags ==
    Methods \cup {"h1", "h2", "h3", "h6", "span", "body", "x-tag", "thead", "tbody", "menu"}

GenericDocs ==
    {Elem(tag, <<Text(t)>>) : tag \in AllTags,
                              t \in {<<"a">>, <<" ", "a", "\n", "b", " ">>}}
    \cup {Elem("h3", <<Elem(tag, <<Text(<<"a">>)>>)>>) : tag \in AllTags}

\* Inline markup: chains of inline tags, code contexts and containers over
\* texts with and without boundary white space.
InlineTexts ==
    {<<"a">>, <<" ", "a">>, <<"a", " ">>, <<" ", "a", " ", "b", " ">>, <<" ">>,
     <<"\n", "a", "_", "b">>}

InlineDocs ==
    Chains({"b", "em", "del", "code", "div", "span"}, MaxInlineDepth,
           {Text(t) : t \in InlineTexts})
    \cup Chains({"strong", "i", "s", "kbd", "samp", "pre", "sub"}, 1,
                {Text(t) : t \in InlineTexts}
                \cup {Elem("b", <<Text(<<"a">>), Elem("br", <<>>)>>)})

\* Lists: chains of list tags and containers, lists followed by siblings,
\* and ordered lists with a start attribute.
ListFollowers ==
    {<<>>, <<Text(<<"a">>)>>, <<Text(<<" ">>)>>, <<Elem("p", <<Text(<<"a">>)>>)>>,
     <<Elem("ul", <<Elem("li", <<Text(<<"b">>)>>)>>)>>,
     <<Text(<<" ">>), Elem("p", <<Text(<<"a">>)>>)>>,
     <<Comment(<<"c">>), Elem("ol", <<>>)>>,
     <<Comment(<<"c">>), Text(<<"\n", "a">>)>>}

StartValues == {Null, <<"3">>, <<"a", "b">>, <<>>, <<"1", "0">>}

Item(t) == Elem("li", <<Text(t)>>)

ListDocs ==
    Chains({"ul", "ol", "li", "div"}, MaxDepth, {Text(<<"a">>)})
    \cup {Elem(outer, <<Elem(list, <<Item(<<"a">>)>>)>> \o after) :
              outer \in {"div", "li"}, list \in {"ul", "ol"}, after \in ListFollowers}
    \cup {Fragment(<<Elem(list, <<Item(<<"a">>)>>)>> \o after) :
              list \in {"ul", "ol"}, after \in ListFollowers}
    \cup {ElemA("ol", [NoAttrs EXCEPT !.start = v], items) :
              v \in StartValues,
              items \in {<<Item(<<"a">>)>>, <<Item(<<"a">>), Text(<<" ">>), Item(<<"b">>)>>}}
    \cup {Elem("menu", <<Item(<<"a">>)>>), Elem("ul", <<Item(<<" ">>)>>)}

\* Tables: a row of up to MaxCells cells, each a td or th with a colspan
\* attribute, in the places a row can stand.
ColspanValues == {Null, <<"2">>, <<"a", "b">>, <<"-", "1">>, <<"0">>}

Cells ==
    {ElemA(tag, [NoAttrs EXCEPT !.colspan = v], <<Text(<<"a">>)>>) :
         tag \in {"td", "th"}, v \in ColspanValues}

Rows == {Elem("tr", cells) : cells \in UNION {[1..n -> Cells] : n \in 0..MaxCells}}

PlainRow == Elem("tr", <<Elem("td", <<Text(<<"b">>)>>)>>)

\* [doc, node]: the tree and the node of it that is converted
TableInputs ==
    UNION {
        {[doc |-> Elem("table", <<r>>), node |-> <<>>],
         [doc |-> Elem("table", <<r>>), node |-> <<1>>],
         [doc |-> Elem("table", <<Elem("tbody", <<r>>)>>), node |-> <<>>],
         [doc |-> Elem("table", <<Elem("thead", <<r>>)>>), node |-> <<>>],
         [doc |-> Elem("table", <<Elem("thead", <<PlainRow>>), Elem("tbody", <<r>>)>>),
          node |-> <<>>],
         [doc |-> Elem("table", <<PlainRow, r>>), node |-> <<>>],
         [doc |-> Elem("table", <<Elem("tbody", <<PlainRow>>), Elem("tbody", <<r>>)>>),
          node |-> <<>>],
         [doc |-> Elem("table", <<Elem("tbody", <<PlainRow>>), Elem("tfoot", <<r>>)>>),
          node |-> <<>>],
         [doc |-> Elem("table", <<Elem("thead", <<r, PlainRow>>)>>), node |-> <<>>],
         [doc |-> Elem("tbody", <<r>>), node |-> <<>>],
         [doc |-> Fragment(<<r>>), node |-> <<>>],
         [doc |-> r, node |-> <<>>]} : r \in Rows}

\* Links: an a element with and without href and title, over link texts
\* equal to the href or not, alone, in a block and in a code context.
HrefValues == {Null, <<>>, <<"x">>, <<"a", "_", "b">>}
TitleValues == {Null, <<>>, <<"t">>, <<"\"">>}
LinkTexts ==
    {<<>>, <<Text(<<"x">>)>>, <<Text(<<" ", "x", " ">>)>>, <<Text(<<"a", "_", "b">>)>>,
     <<Text(<<"y">>)>>, <<Text(<<" ">>)>>}

Links ==
    {ElemA("a", [NoAttrs EXCEPT !.href = h, !.title = t], kids) :
         h \in HrefValues, t \in TitleValues, kids \in LinkTexts}

LinkDocs ==
    Links \cup {Elem(outer, <<l>>) : outer \in {"div", "code"}, l \in Links}

\* Tags with and without a rule, over children that end and begin with
\* newlines, alone and in a block.
PassTags == {"span", "body", "x-tag", "list", "section", "b", "p", "li", "h1", "td"}

PassKids ==
    {<<>>, <<Text(<<"a">>)>>, <<Text(<<" ", "a", " ">>)>>,
     <<Elem("p", <<Text(<<"a">>)>>), Text(<<"b", " ">>)>>,
     <<Elem("p", <<Text(<<"a">>)>>), Elem("h1", <<Text(<<"b">>)>>)>>,
     <<Elem("span", <<Elem("p", <<Text(<<"a">>)>>), Elem("br", <<>>)>>)>>}

PassDocs ==
    {Elem(tag, kids) : tag \in PassTags, kids \in PassKids}
    \cup {Elem("div", <<Elem(tag, kids)>>) : tag \in PassTags, kids \in PassKids}

\* Two element children side by side: every pair of the outputs that end
\* or begin with newlines.
BlockElements ==
    {Elem("p", <<Text(<<"a">>)>>), Elem("div", <<>>), Elem("h1", <<Text(<<"a">>)>>),
     Elem("blockquote", <<Text(<<"a">>)>>), Elem("blockquote", <<>>), Item(<<"a">>),
     Elem("ul", <<Item(<<"a">>)>>), Elem("hr", <<>>), Elem("br", <<>>),
     Elem("pre", <<Text(<<"a", "\n">>)>>), Elem("dt", <<Text(<<"a">>)>>),
     Elem("caption", <<Text(<<"a">>)>>), Elem("b", <<Text(<<"a">>)>>)}

PairDocs ==
    {Elem(outer, <<x, y>>) : outer \in {"div", "span"}, x \in BlockElements,
                             y \in BlockElements}

\* Texts over hyphens, hashes, ordinals and white space, in an element
\* that leaves its text as it is.
EscapeTexts ==
    UNION {[1..n -> {"-", "#", "1", ".", " ", "\n", "x"}] : n \in 1..MaxTextLen}

EscapeDocs == {Elem("span", <<Text(t)>>) : t \in EscapeTexts}

\* The options the callers give.
InlineOptions ==
    {[autolinks |-> TRUE], [strong_em_symbol |-> <<"_">>],
     [strip |-> <<"b", "code">>], [convert |-> <<"em", "del">>, strip |-> Null]}

ListOptions == {[bullets |-> <<"*", "+", "-">>], [bullets |-> <<"-">>], [bullets |-> <<"*", "+">>]}

TableOptions == {[table_infer_header |-> FALSE], [table_infer_header |-> TRUE]}

LinkOptions ==
    {[autolinks |-> al, default_title |-> dt] : al \in BOOLEAN, dt \in BOOLEAN}
    \cup {[escape_underscores |-> FALSE]}

PassOptions ==
    {[strip |-> Null], [strip |-> <<"b", "p", "h1", "td", "li">>], [convert |-> <<"p">>],
     [convert |-> <<>>], [strip |-> <<"b">>, convert |-> <<"p">>],
     [strip |-> <<>>, convert |-> <<>>]}

GenericOptions ==
    {[autolinks |-> TRUE], [heading_style |-> "atx"], [heading_style |-> "atx_closed"],
     [newline_style |-> "backslash"], [escape_misc |-> TRUE],
     [wrap |-> TRUE, wrap_width |-> 3],
     [sub_symbol |-> <<"<", "s", "u", "b", ">">>, sup_symbol |-> <<"^">>,
      code_language |-> <<"j", "s">>, keep_inline_images_in |-> <<"h3">>]}

Top(docs) == {[doc |-> d, node |-> <<>>] : d \in docs}

(***************************************************************************)
(* The state machine: a caller constructs a converter from the options it  *)
(* gives and converts a node of a tree, or calls markdownify, which does   *)
(* both.  The converter keeps no state between conversions and writes      *)
(* nothing to the tree, so one conversion per behaviour shows every state  *)
(* a conversion can end in.                                                *)
(***************************************************************************)

VARIABLES
    pc,         \* "start", "constructed", "failed" (the constructor threw),
                \* "converted", "threw" (the conversion threw)
    given,      \* the options the caller passes
    dom,        \* the tree
    node,       \* the node of the tree passed to convert
    converter,  \* [constructed, options]: the converter the caller holds
    result,     \* the string convert returned
    error,      \* the error thrown: "none", "Error", "TypeError", "RangeError"
    calls,      \* the log of the calls of processTag of the conversion
    merges      \* the log of the merges of the conversion

vars == <<pc, given, dom, node, converter, result, error, calls, merges>>

NoConverter == [constructed |-> FALSE, options |-> DefaultOptions]

\* The caller's inputs: options of a family with a tree of the family.
Given(options, inputs) ==
    \E g \in options, i \in inputs : given = g /\ dom = i.doc /\ node = i.node

Init ==
    /\ pc = "start"
    /\ \/ Given(GenericOptions, Top(GenericDocs))
       \/ Given(InlineOptions, Top(InlineDocs))
       \/ Given(ListOptions, Top(ListDocs))
       \/ Given(TableOptions, TableInputs)
       \/ Given(LinkOptions, Top(LinkDocs))
       \/ Given(PassOptions, Top(PassDocs))
       \/ Given({[autolinks |-> TRUE]}, Top(PairDocs))
       \/ Given({[escape_misc |-> TRUE]}, Top(EscapeDocs))
    /\ converter = NoConverter
    /\ result = <<>>
    /\ error = "none"
    /\ calls = {}
    /\ merges = {}

\* new MarkdownConverter(given)
Construct ==
    /\ pc = "start"
    /\ LET c == Constructor(given)
       IN IF c.error # "none"
          THEN /\ pc' = "failed"
               /\ error' = c.error
               /\ UNCHANGED converter
          ELSE /\ pc' = "constructed"
               /\ converter' = [constructed |-> TRUE, options |-> c.options]
               /\ UNCHANGED error
    /\ UNCHANGED <<given, dom, node, result, calls, merges>>

\* What a conversion leaves: the string returned and the log, or the error.
Converted(r) ==
    IF r.err # "none"
    THEN /\ pc' = "threw"
         /\ error' = r.err
         /\ UNCHANGED <<result, calls, merges>>
    ELSE /\ pc' = "converted"
         /\ result' = r.text
         /\ calls' = r.calls
         /\ merges' = r.merges
         /\ UNCHANGED error

\* converter.convert(node)
Convert ==
    /\ pc = "constructed"
    /\ Converted(convert(converter.options, dom, node))
    /\ UNCHANGED <<given, dom, node, converter>>

\* markdownify(node, given)
Markdownify ==
    /\ pc = "start"
    /\ LET c == Constructor(given)
       IN IF c.error # "none"
          THEN /\ pc' = "failed"
               /\ error' = c.error
               /\ UNCHANGED <<result, calls, merges>>
          ELSE Converted(convert(c.options, dom, node))
    /\ UNCHANGED <<given, dom, node, converter>>

Next == Construct \/ Convert \/ Markdownify

Spec == Init /\ [][Next]_vars

(***************************************************************************)
(* Properties                                                              *)
(***************************************************************************)

\* The options the conversion runs with.
Options == ObjectAssign(DefaultOptions, given)

\* The tag of the element a logged call of processTag was made for.
TagOf(c) == tagName(dom, c.node)

\* The logged calls for elements of the given tags whose rule was applied.
RuleCalls(tags) ==
    {c \in calls : TagOf(c) \in tags /\ shouldConvertTag(Options, TagOf(c))}

StartsWith(s, p) == Len(s) >= Len(p) /\ SubSeq(s, 1, Len(p)) = p

RECURSIVE LeadingNewlines(_)
LeadingNewlines(s) ==
    IF s # <<>> /\ Head(s) = "\n" THEN 1 + LeadingNewlines(Tail(s)) ELSE 0

RECURSIVE TrailingNewlines(_)
TrailingNewlines(s) ==
    IF s # <<>> /\ s[Len(s)] = "\n"
    THEN 1 + TrailingNewlines(SubSeq(s, 1, Len(s) - 1)) ELSE 0

\* Whether the node has an ancestor in a code context.
InCodeContext(path) == findAncestor(dom, path, {"pre", "code", "kbd", "samp"})

\* C1: convert always returns a string and never raises; the only error is
\* the one of the constructor.  (Violated: a tr converted without a parent
\* element, and a cell with a negative colspan, make convert throw.)
ConvertNeverThrows ==
    /\ pc # "threw"
    /\ error \in {"none", "Error"}

\* A numeric attribute that is present and holds no number.
NonNumeric(value) == Truthy(value) /\ parseInt(value).nan

\* C2: a non-numeric start or colspan is treated as absent: an li of an ol
\* with a non-numeric start is numbered from 1, and a cell with a non-numeric
\* colspan ends in one pipe.  (Violated: the bullet is "NaN." and the cell
\* has no pipe.)
NonNumericAttributeIsAbsent ==
    /\ \A c \in RuleCalls({"li"}) :
           (/\ parentNode(c.node) # NullNode
            /\ tagName(dom, parentNode(c.node)) = "ol"
            /\ NonNumeric(getAttribute(dom, parentNode(c.node), "start"))
            /\ Trim(c.text) # <<>>)
           => StartsWith(c.out, NatToString(1 + LiIndex(dom, c.node)) \o <<".", " ">>)
    /\ \A c \in RuleCalls({"td", "th"}) :
           NonNumeric(getAttribute(dom, c.node, "colspan"))
           => c.out = <<" ">> \o ReplaceChar(Trim(c.text), "\n", <<" ">>) \o <<" ", "|">>

\* Whether the caller supplies both strip and convert.
BothSupplied ==
    /\ "strip" \in DOMAIN given /\ given.strip # Null
    /\ "convert" \in DOMAIN given /\ given.convert # Null

\* C3: construction, direct or through markdownify, fails exactly when both
\* strip and convert are supplied; it fails with the configuration error,
\* before any node is converted, and leaves no converter; with one of them
\* or neither, no configuration error is raised.
ConstructionFailsIffBoth ==
    /\ pc # "start" => (pc = "failed" <=> BothSupplied)
    /\ pc = "failed" =>
           /\ error = "Error"
           /\ ~converter.constructed
           /\ calls = {} /\ merges = {} /\ result = <<>>
    /\ error = "Error" => pc = "failed"
    /\ converter.constructed => ~BothSupplied

\* C3 witness: a construction with both lists supplied has failed.
ConstructionFailed == pc = "failed" /\ BothSupplied /\ error = "Error"

\* The unordered-list nesting depth of an li: 0 for an item of an outermost
\* ul, one more for each further ul above it.
NestingDepth(path) ==
    Cardinality({i \in 0..Len(path) : tagName(dom, SubSeq(path, 1, i)) = "ul"}) - 1

\* C4: the bullet of a non-empty li whose parent is not an ol is
\* bullets[d mod length(bullets)], d the nesting depth of the item, so it is
\* one of the characters of bullets.  (Violated: an li with no ul above it
\* gets "undefined".)
BulletCyclesThroughBullets ==
    \A c \in RuleCalls({"li"}) :
        (/\ Trim(c.text) # <<>>
         /\ ~(parentNode(c.node) # NullNode /\ tagName(dom, parentNode(c.node)) = "ol"))
        => StartsWith(c.out,
                      <<Options.bullets[(NestingDepth(c.node) % Len(Options.bullets)) + 1],
                        " ">>)

\* Whether the node has an li among its ancestors.
HasLiAncestor(path) ==
    \E i \in 0..(Len(path) - 1) : tagName(dom, SubSeq(path, 1, i)) = "li"

\* C5: a ul or ol with an li ancestor gives one newline and the items' text
\* without its trailing newlines; any other gives two newlines and the
\* items' text, and one more newline exactly when its next block-content
\* sibling (element or non-blank text) exists and is no ul or ol.
\* (Violated: a non-blank text sibling adds no newline.)
ListSeparation ==
    \A c \in RuleCalls({"ul", "ol"}) :
        IF HasLiAncestor(c.node)
        THEN c.out = <<"\n">> \o SubSeq(c.text, 1, Len(c.text) - TrailingNewlines(c.text))
        ELSE c.out = <<"\n", "\n">> \o c.text
                     \o (IF /\ nextBlockContentSibling(dom, c.node) # NullNode
                            /\ tagName(dom, nextBlockContentSibling(dom, c.node))
                                   \notin {"ul", "ol"}
                         THEN <<"\n">> ELSE <<>>)

\* The number of pipe-terminated columns of a row's cell text.
Columns(text) == Cardinality({i \in 1..Len(text) : text[i] = "|"})

\* The separator or placeholder line of n columns.
ColumnLine(n, x) ==
    <<"|", " ">> \o Join([i \in 1..n |-> x], <<" ", "|", " ">>) \o <<" ", "|", "\n">>

\* C6: every separator or placeholder line a tr emits has as many columns
\* as the row's own cell text.  (Violated: the placeholder lines count the
\* cells, not their colspans.)
SeparatorColumnsMatchRow ==
    \A c \in RuleCalls({"tr"}) :
        LET row == <<"|">> \o c.text \o <<"\n">>
            n == Columns(c.text)
        IN c.out \in {row,
                      row \o ColumnLine(n, <<"-", "-", "-">>),
                      ColumnLine(n, <<>>) \o ColumnLine(n, <<"_", "_", "_">>) \o row}

\* The link text as convert_a compares and writes it.
LinkText(c) == Trim(c.text)

\* The boundary space a rule puts back before (after) the markup.
SpaceBefore(text) == IF text # <<>> /\ Head(text) = " " THEN <<" ">> ELSE <<>>
SpaceAfter(text) == IF text # <<>> /\ text[Len(text)] = " " THEN <<" ">> ELSE <<>>

\* The title a link is written with: the title attribute, or the href under
\* default_title; Null if neither applies.
LinkTitle(c) ==
    IF Truthy(getAttribute(dom, c.node, "title")) THEN getAttribute(dom, c.node, "title")
    ELSE IF Options.default_title THEN getAttribute(dom, c.node, "href")
    ELSE Null

Quoted(title) ==
    IF Truthy(title)
    THEN <<" ", "\"">> \o ReplaceChar(title, "\"", <<"\\", "\"">>) \o <<"\"">>
    ELSE <<>>

\* Whether the link is written as an autolink.
IsAutolink(c) ==
    /\ Options.autolinks
    /\ ~Options.default_title
    /\ ~Truthy(getAttribute(dom, c.node, "title"))
    /\ UnescapeUnderscores(LinkText(c)) = getAttribute(dom, c.node, "href")

\* C7, as amended: for an a element outside code contexts, a blank link text
\* gives the empty string; otherwise, with autolinks enabled, default_title
\* disabled, no non-empty title and the trimmed link text (its escaped
\* underscores unescaped) equal to the href, the output is <href>; otherwise,
\* with a non-empty href, it is P [trimmed text](href "title") S, the title
\* being the title attribute or, under default_title, the href; with no
\* href the text is returned unchanged.
LinkOutput ==
    \A c \in RuleCalls({"a"}) :
        ~InCodeContext(c.node) =>
            IF LinkText(c) = <<>> THEN c.out = <<>>
            ELSE IF IsAutolink(c)
            THEN c.out = <<"<">> \o getAttribute(dom, c.node, "href") \o <<">">>
            ELSE IF Truthy(getAttribute(dom, c.node, "href"))
            THEN c.out = SpaceBefore(c.text) \o <<"[">> \o LinkText(c) \o <<"]", "(">>
                         \o getAttribute(dom, c.node, "href") \o Quoted(LinkTitle(c))
                         \o <<")">> \o SpaceAfter(c.text)
            ELSE c.out = c.text

\* C7 witness: a link was written as an autolink.
AutolinkEmitted ==
    \E c \in RuleCalls({"a"}) :
        /\ ~InCodeContext(c.node)
        /\ LinkText(c) # <<>>
        /\ IsAutolink(c)
        /\ c.out = <<"<">> \o getAttribute(dom, c.node, "href") \o <<">">>

\* C7, as stated: with autolinks enabled, a link text equal to the href and
\* no title attribute, the output is <href> whatever the other options are.
\* (Violated: with default_title the link is written in full.)
AutolinkWhateverOptions ==
    \A c \in RuleCalls({"a"}) :
        (/\ ~InCodeContext(c.node)
         /\ Options.autolinks
         /\ c.text # <<>>
         /\ c.text = getAttribute(dom, c.node, "href")
         /\ getAttribute(dom, c.node, "title") = Null)
        => c.out = <<"<">> \o getAttribute(dom, c.node, "href") \o <<">">>

\* The markup symbol of a symmetric-markup tag.
MarkupOf(tag) ==
    IF tag \in {"b", "strong"} THEN Options.strong_em_symbol \o Options.strong_em_symbol
    ELSE IF tag \in {"em", "i"} THEN Options.strong_em_symbol
    ELSE IF tag \in {"del", "s"} THEN <<"~", "~">>
    ELSE <<Backquote>>

SymmetricTags == {"b", "strong", "em", "i", "del", "s", "code", "kbd", "samp"}

\* C8: a symmetric-markup tag inside a code context returns its inner text
\* unchanged; outside, a blank inner text gives the empty string, and any
\* other gives P M trim(text) M S, P (S) a space exactly when the inner text
\* starts (ends) with a space.
InlineWrap ==
    \A c \in RuleCalls(SymmetricTags) :
        IF InCodeContext(c.node) THEN c.out = c.text
        ELSE IF Trim(c.text) = <<>> THEN c.out = <<>>
        ELSE /\ c.out = SpaceBefore(c.text) \o MarkupOf(TagOf(c)) \o Trim(c.text)
                        \o MarkupOf(TagOf(c)) \o SpaceAfter(c.text)
             /\ ~IsSpace(c.out[Len(SpaceBefore(c.text)) + Len(MarkupOf(TagOf(c))) + 1])

\* C8 witness: an inner text with a space at both ends was wrapped.
BoundarySpaceRestored ==
    \E c \in RuleCalls(SymmetricTags) :
        /\ ~InCodeContext(c.node)
        /\ Trim(c.text) # <<>>
        /\ Head(c.text) = " " /\ c.text[Len(c.text)] = " "
        /\ StartsWith(c.out, <<" ">> \o MarkupOf(TagOf(c)))
        /\ c.out[Len(c.out)] = " "

\* The tags of the rule table.
SupportedTags ==
    {"a", "b", "blockquote", "br", "code", "del", "div", "article", "section", "em",
     "kbd", "dd", "dt", "hr", "i", "img", "ul", "ol", "li", "p", "pre", "script",
     "style", "s", "strong", "samp", "sub", "sup", "table", "caption", "figcaption",
     "td", "th", "tr", "h1", "h2", "h3", "h4", "h5", "h6"}

\* C9: an element whose tag is not in the rule table, or is excluded by
\* strip or not included in convert, returns the merged text of its
\* children unchanged.  (Violated: an element named list gets the list rule.)
UnsupportedTagPassesThrough ==
    \A c \in calls :
        (/\ IsElement(dom, c.node)
         /\ (TagOf(c) \notin SupportedTags \/ ~shouldConvertTag(Options, TagOf(c))))
        => c.out = c.text

\* The number of newlines a merge left between the two stripped pieces.
MergedRun(m) ==
    Len(m.out) - (Len(m.left) - TrailingNewlines(m.left))
               - (Len(m.right) - LeadingNewlines(m.right))

\* A merge keeps both pieces, stripped of the newlines they meet with, and
\* puts one run of newlines between them.
MergeKeepsPieces(m) ==
    /\ MergedRun(m) >= 0
    /\ m.out = SubSeq(m.left, 1, Len(m.left) - TrailingNewlines(m.left))
               \o [i \in 1..MergedRun(m) |-> "\n"]
               \o SubSeq(m.right, LeadingNewlines(m.right) + 1, Len(m.right))

\* C10, as amended: a merge gives the stripped accumulator, k newlines and
\* the stripped child output, k the larger of the two runs: never shorter
\* than either run, never longer than the longer one, and so less than
\* their sum whenever both runs are non-empty.
NewlineMerge ==
    \A m \in merges :
        /\ MergeKeepsPieces(m)
        /\ MergedRun(m) >= TrailingNewlines(m.left)
        /\ MergedRun(m) >= LeadingNewlines(m.right)
        /\ MergedRun(m) \in {TrailingNewlines(m.left), LeadingNewlines(m.right)}
        /\ (TrailingNewlines(m.left) > 0 /\ LeadingNewlines(m.right) > 0)
           => MergedRun(m) < TrailingNewlines(m.left) + LeadingNewlines(m.right)

\* C10 witness: two non-empty runs of different lengths were merged.
BothRunsMerged ==
    \E m \in merges :
        /\ TrailingNewlines(m.left) > 0
        /\ LeadingNewlines(m.right) > 0
        /\ TrailingNewlines(m.left) # LeadingNewlines(m.right)

\* C10, as stated: k is the larger of the two runs and is never their sum.
\* (Violated: when one of the runs is empty the larger run is the sum.)
NewlineMergeNeverSum ==
    \A m \in merges :
        /\ MergeKeepsPieces(m)
        /\ MergedRun(m) >= TrailingNewlines(m.left)
        /\ MergedRun(m) >= LeadingNewlines(m.right)
        /\ MergedRun(m) \in {TrailingNewlines(m.left), LeadingNewlines(m.right)}
        /\ MergedRun(m) # TrailingNewlines(m.left) + LeadingNewlines(m.right)

\* The nodes of the tree at or below the path.
RECURSIVE Subtree(_, _)
Subtree(doc, path) ==
    {path} \cup UNION {Subtree(doc, path \o <<i>>) : i \in 1..Len(NodeAt(doc, path).kids)}

\* Whether p is a proper ancestor of q.
ProperAncestor(p, q) == Len(p) < Len(q) /\ SubSeq(q, 1, Len(p)) = p

\* The tags that put their children in the inline context.
InlineContainers == {"h1", "h2", "h3", "h4", "h5", "h6", "td", "th"}

\* C11: in a conversion the root is processed with convertAsInline false,
\* every element below it is processed, once; every processed descendant
\* of a node processed with the flag true is processed with the flag true,
\* and so is every processed proper descendant of a heading, td or th.
InlineFlagOnlyTurnsOn ==
    pc = "converted" =>
        /\ \A c \in calls : c.node = node => ~c.inline
        /\ \A p \in Subtree(dom, node) :
               (p = node \/ IsElement(dom, p)) => \E c \in calls : c.node = p
        /\ \A c, d \in calls :
               /\ c.node = d.node => c.inline = d.inline
               /\ (/\ ProperAncestor(c.node, d.node)
                   /\ (c.inline \/ TagOf(c) \in InlineContainers))
                  => d.inline

\* C11 witness: an element was processed with the flag true below a node
\* that has the flag true by inheritance only.
InlineFlagInherited ==
    /\ pc = "converted"
    /\ \E c, d \in calls :
           /\ c.node = parentNode(d.node)
           /\ c.inline /\ TagOf(c) \notin InlineContainers
           /\ IsElement(dom, d.node) /\ d.inline

\* The table a row stands in: its nearest table ancestor, NullNode if none.
EnclosingTable(path) ==
    IF \E i \in 0..(Len(path) - 1) : tagName(dom, SubSeq(path, 1, i)) = "table"
    THEN SubSeq(path, 1,
                CHOOSE i \in 0..(Len(path) - 1) :
                    /\ tagName(dom, SubSeq(path, 1, i)) = "table"
                    /\ \A j \in (i + 1)..(Len(path) - 1) :
                           tagName(dom, SubSeq(path, 1, j)) # "table")
    ELSE NullNode

\* Whether p comes before q in document order, neither being above the
\* other.
Precedes(p, q) ==
    \E i \in 1..Min(Len(p), Len(q)) :
        p[i] < q[i] /\ \A j \in 1..(i - 1) : p[j] = q[j]

\* Whether the row is the first row of its enclosing table.
FirstRowOfTable(path) ==
    \A q \in Subtree(dom, EnclosingTable(path)) :
        (tagName(dom, q) = "tr" /\ q # path) => Precedes(path, q)

\* C12: the head-row-missing condition of a row of a table holds only for
\* the first row of a table without a thead, the row being a child of the
\* table or the first child of a tbody; never for a row of a thead or tfoot;
\* and only the first row of a table gets a placeholder or a separator.
\* (Violated: the first row of a tfoot, of a second tbody and of a thead
\* has the condition, and the first two get the placeholder lines.)
HeadRowMissingOnlyFirstRow ==
    \A c \in RuleCalls({"tr"}) :
        EnclosingTable(c.node) # NullNode =>
            /\ isHeadRowMissing(dom, c.node) =>
                   /\ FirstRowOfTable(c.node)
                   /\ ~HasDescendant(NodeAt(dom, EnclosingTable(c.node)), "thead")
                   /\ \/ tagName(dom, parentNode(c.node)) = "table"
                      \/ /\ tagName(dom, parentNode(c.node)) = "tbody"
                         /\ NoPreviousElementSibling(dom, c.node)
            /\ tagName(dom, parentNode(c.node)) \in {"thead", "tfoot"}
                   => ~isHeadRowMissing(dom, c.node)
            /\ c.out # <<"|">> \o c.text \o <<"\n">> => FirstRowOfTable(c.node)

\* The index after the run of characters of cs that starts at index i.
RunEnd(s, i, cs) ==
    CHOOSE k \in i..(Len(s) + 1) :
        /\ k = Len(s) + 1 \/ s[k] \notin cs
        /\ \A j \in i..(k - 1) : s[j] \in cs

AtStartOrAfterSpace(s, i) == i = 1 \/ IsSpace(s[i - 1])
BeforeSpaceOrEnd(s, i) == i = Len(s) \/ IsSpace(s[i + 1])

\* Whether index i of s is where a block-marker candidate takes its
\* backslash: the first hyphen of a run of hyphens, the first hash of a run
\* of 1 to 6, or the "." or ")" after a number of 1 to 9 digits; the marker
\* standing at the start or after white space, and before white space or
\* the end.
IsCandidate(s, i) ==
    \/ /\ s[i] = "-"
       /\ AtStartOrAfterSpace(s, i)
       /\ BeforeSpaceOrEnd(s, RunEnd(s, i, {"-"}) - 1)
    \/ /\ s[i] = "#"
       /\ AtStartOrAfterSpace(s, i)
       /\ RunEnd(s, i, {"#"}) - i <= 6
       /\ BeforeSpaceOrEnd(s, RunEnd(s, i, {"#"}) - 1)
    \/ /\ s[i] \in {".", ")"}
       /\ BeforeSpaceOrEnd(s, i)
       /\ \E d \in 1..Min(9, i - 1) :
              /\ \A j \in (i - d)..(i - 1) : IsDigit(s[j])
              /\ AtStartOrAfterSpace(s, i - d)

\* s with a backslash in front of every candidate, and nowhere else.
RECURSIVE EscapeCandidates(_, _)
EscapeCandidates(s, i) ==
    IF i > Len(s) THEN <<>>
    ELSE (IF IsCandidate(s, i) THEN <<"\\", s[i]>> ELSE <<s[i]>>)
         \o EscapeCandidates(s, i + 1)

\* C13: with escape_misc, the text of hyphens, hashes, ordinals and white
\* space comes out with a backslash in front of every block-marker
\* candidate and nowhere else.  (Violated: of two candidates separated by
\* one white-space character only the first is escaped.)
EveryCandidateEscaped ==
    (pc = "converted" /\ dom \in EscapeDocs /\ Options.escape_misc)
    => result = EscapeCandidates(CollapseWhitespace(dom.kids[1].value, Options.wrap), 1)

====
